---- MODULE Spec2Model ----
(***************************************************************************)
(* Job packaging service (app.py): keyword ranking, resume skill-section   *)
(* rewriting, the template store and the tailoring request pipeline.       *)
(* Text is a sequence of one-character strings, so that tokenising,        *)
(* case folding, trimming, splitting and joining are computed as the code  *)
(* computes them.                                                          *)
(***************************************************************************)
EXTENDS Integers, Sequences, FiniteSets, TLC

VARIABLES extract, upload, rank, polish, clock, store, files, req

vars == <<extract, upload, rank, polish, clock, store, files, req>>

(***************************************************************************)
(* Characters and strings                                                  *)
(***************************************************************************)
BULLET == "U+2022"
REPL == "U+FFFD"
NUL == "U+0000"

UpperLetters == <<"A", "B", "C", "D", "E", "F", "G", "H", "I", "J", "K", "L", "M", "N", "O", "P", "Q", "R", "S", "T", "U", "V", "W", "X", "Y", "Z">>
LowerLetters == <<"a", "b", "c", "d", "e", "f", "g", "h", "i", "j", "k", "l", "m", "n", "o", "p", "q", "r", "s", "t", "u", "v", "w", "x", "y", "z">>
Digits == {"0", "1", "2", "3", "4", "5", "6", "7", "8", "9"}
Whitespace == {" ", "\n", "\t"}

Range(s) == {s[i] : i \in DOMAIN s}

IndexOf(s, c) == CHOOSE i \in DOMAIN s : s[i] = c

IsUpper(c) == c \in Range(UpperLetters)
IsLower(c) == c \in Range(LowerLetters)
IsAlpha(c) == IsUpper(c) \/ IsLower(c)
IsWordChar(c) == IsAlpha(c) \/ c \in Digits \/ c = "_"

LowerChar(c) == IF IsUpper(c) THEN LowerLetters[IndexOf(UpperLetters, c)] ELSE c
UpperChar(c) == IF IsLower(c) THEN UpperLetters[IndexOf(LowerLetters, c)] ELSE c

\* str.lower() and str.upper()
lower(s) == [i \in DOMAIN s |-> LowerChar(s[i])]
upper(s) == [i \in DOMAIN s |-> UpperChar(s[i])]

Min(a, b) == IF a <= b THEN a ELSE b

\* s[i:] and s[:k] for 1-based i and k >= 0
Drop(s, i) == SubSeq(s, i, Len(s))
Take(s, k) == SubSeq(s, 1, Min(k, Len(s)))

\* s.startswith(t, i) for a 1-based i
StartsAt(s, t, i) == i + Len(t) - 1 <= Len(s) /\ SubSeq(s, i, i + Len(t) - 1) = t

\* t in s
Contains(s, t) == \E i \in 1..(Len(s) + 1) : StartsAt(s, t, i)

RECURSIVE lstrip(_)
lstrip(s) == IF s # <<>> /\ Head(s) \in Whitespace THEN lstrip(Tail(s)) ELSE s

RECURSIVE rstrip(_)
rstrip(s) ==
    IF s # <<>> /\ s[Len(s)] \in Whitespace THEN rstrip(SubSeq(s, 1, Len(s) - 1)) ELSE s

\* str.strip()
strip(s) == rstrip(lstrip(s))

\* sep.join(items)
RECURSIVE join(_, _)
join(sep, items) ==
    IF items = <<>> THEN <<>>
    ELSE IF Len(items) = 1 THEN items[1]
    ELSE items[1] \o sep \o join(sep, Tail(items))

\* c * n
RECURSIVE Repeat(_, _)
Repeat(c, n) == IF n = 0 THEN <<>> ELSE <<c>> \o Repeat(c, n - 1)

\* str.replace(old, new): every non-overlapping occurrence, left to right
RECURSIVE replace(_, _, _)
replace(s, old, new) ==
    IF old = <<>> \/ s = <<>> THEN s
    ELSE IF StartsAt(s, old, 1) THEN new \o replace(Drop(s, Len(old) + 1), old, new)
    ELSE <<Head(s)>> \o replace(Tail(s), old, new)

\* sorted(pairs, key=lambda x: x[1], reverse=True) and list.sort with the same
\* key: a stable sort, so pairs of equal key keep their order.
RECURSIVE InsertDesc(_, _)
InsertDesc(sorted, x) ==
    IF sorted = <<>> THEN <<x>>
    ELSE IF sorted[Len(sorted)][2] >= x[2] THEN Append(sorted, x)
    ELSE Append(InsertDesc(SubSeq(sorted, 1, Len(sorted) - 1), x), sorted[Len(sorted)])

RECURSIVE SortDescUnstable(_)
SortDescUnstable(pairs) ==
    IF pairs = <<>> THEN <<>>
    ELSE InsertDesc(SortDescUnstable(Tail(pairs)), Head(pairs))

RECURSIVE SortDesc(_)
SortDesc(pairs) ==
    IF pairs = <<>> THEN <<>>
    ELSE InsertDesc(SortDesc(SubSeq(pairs, 1, Len(pairs) - 1)), pairs[Len(pairs)])

(***************************************************************************)
(* Keyword ranker: extract_keywords                                        *)
(***************************************************************************)
stop_words ==
    { <<"t", "h", "e">>, <<"a", "n", "d">>, <<"o", "r">>, <<"b", "u", "t">>, <<"i", "n">>, <<"o", "n">>, <<"a", "t">>, <<"t", "o">>, <<"f", "o", "r">>, <<"o", "f">>,
      <<"w", "i", "t", "h">>, <<"b", "y">>, <<"i", "s">>, <<"a", "r", "e">>, <<"w", "a", "s">>, <<"w", "e", "r", "e">>, <<"b", "e">>, <<"b", "e", "e", "n">>, <<"h", "a", "v", "e">>,
      <<"h", "a", "s">>, <<"h", "a", "d">>, <<"d", "o">>, <<"d", "o", "e", "s">>, <<"d", "i", "d">>, <<"w", "i", "l", "l">>, <<"w", "o", "u", "l", "d">>, <<"c", "o", "u", "l", "d">>,
      <<"s", "h", "o", "u", "l", "d">>, <<"m", "a", "y">>, <<"m", "i", "g", "h", "t">>, <<"c", "a", "n">>, <<"t", "h", "i", "s">>, <<"t", "h", "a", "t">>, <<"t", "h", "e", "s", "e">>, <<"t", "h", "o", "s", "e">>,
      <<"a">>, <<"a", "n">>, <<"a", "s">>, <<"f", "r", "o", "m">>, <<"n", "o", "t">>, <<"a", "l", "l">>, <<"a", "n", "y">>, <<"e", "a", "c", "h">>, <<"e", "v", "e", "r", "y">>,
      <<"n", "o">>, <<"s", "o", "m", "e">>, <<"s", "u", "c", "h">>, <<"t", "h", "a", "n">>, <<"t", "o", "o">>, <<"v", "e", "r", "y">> }

\* first index >= i of s that holds no ASCII letter
RECURSIVE AlphaRunEnd(_, _)
AlphaRunEnd(s, i) == IF i <= Len(s) /\ IsAlpha(s[i]) THEN AlphaRunEnd(s, i + 1) ELSE i

\* re.findall(r'\b[a-zA-Z]{3,}\b', s) scanning from index i
RECURSIVE findall_words(_, _)
findall_words(s, i) ==
    IF i > Len(s) THEN <<>>
    ELSE IF IsAlpha(s[i]) /\ (i = 1 \/ ~IsWordChar(s[i - 1]))
    THEN LET e == AlphaRunEnd(s, i) IN
         IF e - i >= 3 /\ (e > Len(s) \/ ~IsWordChar(s[e]))
         THEN <<SubSeq(s, i, e - 1)>> \o findall_words(s, e)
         ELSE findall_words(s, i + 1)
    ELSE findall_words(s, i + 1)

RemoveStopWordsNone(words) == words

\* [word for word in words if word not in stop_words]
RemoveStopWords(words) == SelectSeq(words, LAMBDA w : w \notin stop_words)

\* word_counts: the dict as its items in insertion order
RECURSIVE CountWords(_, _)
CountWords(words, counts) ==
    IF words = <<>> THEN counts
    ELSE LET w == Head(words) IN
         IF \E i \in DOMAIN counts : counts[i][1] = w
         THEN CountWords(Tail(words),
                         [i \in DOMAIN counts |->
                             IF counts[i][1] = w THEN <<w, counts[i][2] + 1>> ELSE counts[i]])
         ELSE CountWords(Tail(words), Append(counts, <<w, 1>>))

extract_keywords(text, top_k) ==
    LET words == RemoveStopWords(findall_words(lower(text), 1)) IN
    IF words = <<>> THEN <<>>
    ELSE LET sorted_words == SortDesc(CountWords(words, <<>>)) IN
         [i \in 1..Min(top_k, Len(sorted_words)) |-> sorted_words[i][1]]

(***************************************************************************)
(* Section rewriter: polish_resume                                         *)
(***************************************************************************)
\* The three skill_patterns.  Each is listed as the header literals the
\* regex engine tries at one position, in its backtracking order: the
\* alternatives left to right, and for an alternative ending in S? first
\* with the S and then without it.  Under re.IGNORECASE the text and the
\* literals are compared in lower case.
skill_patterns ==
    << << <<"t", "e", "c", "h", "n", "i", "c", "a", "l", " ", "s", "k", "i", "l", "l", "s">>, <<"t", "e", "c", "h", "n", "i", "c", "a", "l", " ", "s", "k", "i", "l", "l">>, <<"s", "k", "i", "l", "l", "s">>, <<"s", "k", "i", "l", "l">>,
          <<"t", "e", "c", "h", "n", "o", "l", "o", "g", "i", "e", "s">>, <<"t", "e", "c", "h", "n", "o", "l", "o", "g", "i", "e">>,
          <<"p", "r", "o", "g", "r", "a", "m", "m", "i", "n", "g", " ", "l", "a", "n", "g", "u", "a", "g", "e", "s">>, <<"p", "r", "o", "g", "r", "a", "m", "m", "i", "n", "g", " ", "l", "a", "n", "g", "u", "a", "g", "e">>,
          <<"t", "o", "o", "l", "s">>, <<"t", "o", "o", "l">>, <<"f", "r", "a", "m", "e", "w", "o", "r", "k", "s">>, <<"f", "r", "a", "m", "e", "w", "o", "r", "k">> >>,
       << <<"l", "a", "n", "g", "u", "a", "g", "e", "s">>, <<"l", "a", "n", "g", "u", "a", "g", "e">>, <<"p", "r", "o", "g", "r", "a", "m", "m", "i", "n", "g">> >>,
       << <<"f", "r", "a", "m", "e", "w", "o", "r", "k", "s">>, <<"f", "r", "a", "m", "e", "w", "o", "r", "k">>, <<"l", "i", "b", "r", "a", "r", "i", "e", "s">>, <<"l", "i", "b", "r", "a", "r", "i", "e">>, <<"t", "o", "o", "l", "s">>, <<"t", "o", "o", "l">> >> >>

\* [:\s]
IsSepChar(c) == c = ":" \/ c \in Whitespace
\* [^•\n]
IsContentChar(c) == c # BULLET /\ c # "\n"

RECURSIVE SepRunEnd(_, _)
SepRunEnd(s, i) == IF i <= Len(s) /\ IsSepChar(s[i]) THEN SepRunEnd(s, i + 1) ELSE i

RECURSIVE ContentRunEnd(_, _)
ContentRunEnd(s, i) ==
    IF i <= Len(s) /\ IsContentChar(s[i]) THEN ContentRunEnd(s, i + 1) ELSE i

\* [:\s]*([^•\n]+) from index j: the separator run is greedy and gives
\* characters back until one content character follows it.  The result is
\* the index where the content starts, 0 when there is none.
ContentStart(s, j) ==
    LET m == SepRunEnd(s, j)
        ks == {k \in j..m : k <= Len(s) /\ IsContentChar(s[k])}
    IN IF ks = {} THEN 0 ELSE CHOOSE k \in ks : \A k2 \in ks : k2 <= k

\* The header literals of a pattern that match at index i with content after
\* them (re.IGNORECASE), as indexes into the pattern.
HeadersAt(s, low, i, pattern) ==
    {h \in DOMAIN pattern :
        /\ low[i] = pattern[h][1]
        /\ StartsAt(low, pattern[h], i)
        /\ ContentStart(s, i + Len(pattern[h])) # 0}

\* One match of a pattern at index i: <<>> or a one-element sequence holding
\* the match (group 0 is s[start..stop-1]).
MatchAt(s, low, i, pattern) ==
    LET hs == HeadersAt(s, low, i, pattern) IN
    IF hs = {} THEN <<>>
    ELSE LET h == CHOOSE x \in hs : \A y \in hs : x <= y
             j == i + Len(pattern[h])
             k == ContentStart(s, j)
             e == ContentRunEnd(s, k)
         IN << [start |-> i, stop |-> e,
                group0 |-> SubSeq(s, i, e - 1),
                group1 |-> SubSeq(s, i, j - 1),
                group2 |-> SubSeq(s, k, e - 1)] >>

\* re.finditer(pattern, s, re.IGNORECASE) from index i
RECURSIVE finditer(_, _, _, _)
finditer(s, low, i, pattern) ==
    IF i > Len(s) THEN <<>>
    ELSE LET m == MatchAt(s, low, i, pattern) IN
         IF m = <<>> THEN finditer(s, low, i + 1, pattern)
         ELSE m \o finditer(s, low, m[1].stop, pattern)

\* [,;•\n]
IsDelimiter(c) == c \in {",", ";", BULLET, "\n"}

RECURSIVE DelimiterRunEnd(_, _)
DelimiterRunEnd(s, i) ==
    IF i <= Len(s) /\ IsDelimiter(s[i]) THEN DelimiterRunEnd(s, i + 1) ELSE i

\* re.split(r'[,;•\n]+', s) from index i, cur being the piece so far
RECURSIVE split_items(_, _, _)
split_items(s, i, cur) ==
    IF i > Len(s) THEN <<cur>>
    ELSE IF IsDelimiter(s[i]) THEN <<cur>> \o split_items(s, DelimiterRunEnd(s, i), <<>>)
    ELSE split_items(s, i + 1, Append(cur, s[i]))

\* [item.strip() for item in items if item.strip()]
StripItems(pieces) ==
    LET stripped == [i \in DOMAIN pieces |-> strip(pieces[i])] IN
    SelectSeq(stripped, LAMBDA x : x # <<>>)

ParseItems(section_content) == StripItems(split_items(section_content, 1, <<>>))

\* score of one item: the keywords (of the list, with repetition) it contains
Score(item, keywords) ==
    Cardinality({k \in DOMAIN keywords : Contains(lower(item), lower(keywords[k]))})

ScoreItemsCaseSensitive(items, keywords) ==
    [i \in DOMAIN items |->
        <<items[i], Cardinality({k \in DOMAIN keywords : Contains(items[i], keywords[k])})>>]

ScoreItems(items, keywords) == [i \in DOMAIN items |-> <<items[i], Score(items[i], keywords)>>]

Firsts(pairs) == [i \in DOMAIN pairs |-> pairs[i][1]]

\* The body of the loop over the matches of one pattern.  log records, for
\* every match with a non-empty item list, what was parsed and what was written.
RECURSIVE RewriteMatches(_, _, _, _)
RewriteMatches(matches, polished_text, keywords, log) ==
    IF matches = <<>> THEN [text |-> polished_text, log |-> log]
    ELSE LET match == Head(matches)
             items == ParseItems(match.group2)
         IN IF items = <<>>
            THEN RewriteMatches(Tail(matches), polished_text, keywords, log)
            ELSE LET scored_items == SortDesc(ScoreItems(items, keywords))
                     new_content == join(<<",", " ">>, Firsts(scored_items))
                     new_section == match.group1 \o <<":", " ">> \o new_content
                 IN RewriteMatches(Tail(matches),
                                   replace(polished_text, match.group0, new_section),
                                   keywords,
                                   Append(log, [before |-> polished_text,
                                                group0 |-> match.group0,
                                                header |-> match.group1,
                                                items |-> items,
                                                scored |-> scored_items,
                                                new_section |-> new_section,
                                                after |-> replace(polished_text, match.group0,
                                                                  new_section)]))

\* for pattern in skill_patterns: the matches of a pattern are found in the
\* text as it is when that pattern's turn comes.
RECURSIVE RewritePatterns(_, _, _, _)
RewritePatterns(patterns, polished_text, keywords, log) ==
    IF patterns = <<>> THEN [text |-> polished_text, log |-> log]
    ELSE LET r == RewriteMatches(finditer(polished_text, lower(polished_text), 1, Head(patterns)),
                                 polished_text, keywords, log)
         IN RewritePatterns(Tail(patterns), r.text, keywords, r.log)

\* A value that is no string: None passed for job_title or company_name.
None == <<"None">>

RuleLen == 80

BannerOfAllKeywords(keywords, job_title, company_name) ==
    <<"\n", "\n", "T", "A", "I", "L", "O", "R", "E", "D", " ", "F", "O", "R", " ">> \o upper(job_title) \o <<" ", "A", "T", " ">> \o upper(company_name)
        \o <<":", " ">> \o join(<<",", " ">>, keywords) \o <<"\n">>
        \o Repeat("=", RuleLen) \o <<"\n">>

\* the banner: header of lines 162-164
Banner(keywords, job_title, company_name) ==
    <<"\n", "\n", "T", "A", "I", "L", "O", "R", "E", "D", " ", "F", "O", "R", " ">> \o upper(job_title) \o <<" ", "A", "T", " ">> \o upper(company_name)
        \o <<":", " ">> \o join(<<",", " ">>, Take(keywords, 5)) \o <<"\n">>
        \o Repeat("=", RuleLen) \o <<"\n">>

\* .upper() of None raises AttributeError, which the except clause swallows
PolishRaises(job_title, company_name) == job_title = None \/ company_name = None

polish_resume(resume_text, keywords, job_title, company_name) ==
    LET r == RewritePatterns(skill_patterns, resume_text, keywords, <<>>) IN
    IF PolishRaises(job_title, company_name)
    THEN [raised |-> TRUE, text |-> resume_text, log |-> r.log]
    ELSE [raised |-> FALSE,
          text |-> Banner(keywords, job_title, company_name) \o r.text,
          log |-> r.log]

(***************************************************************************)
(* Text normalizer and template store: extract_pdf_text, allowed_file,     *)
(* upload_templates                                                        *)
(***************************************************************************)
\* re.sub(r'\s+', ' ', s)
RECURSIVE CollapseWhitespace(_)
CollapseWhitespace(s) ==
    IF s = <<>> THEN <<>>
    ELSE IF Head(s) \in Whitespace THEN <<" ">> \o CollapseWhitespace(lstrip(s))
    ELSE <<Head(s)>> \o CollapseWhitespace(Tail(s))

RECURSIVE PagesText(_)
PagesText(pages) ==
    IF pages = <<>> THEN <<>> ELSE Head(pages) \o <<"\n">> \o PagesText(Tail(pages))

\* A document is what PyPDF2 makes of the stored bytes: its pages' text, or
\* corrupt when the reader raises.
extract_pdf_text(doc) ==
    IF doc.corrupt THEN <<>>
    ELSE LET t1 == replace(PagesText(doc.pages), <<REPL>>, <<BULLET>>)
             t2 == replace(t1, <<NUL>>, <<>>)
             t3 == CollapseWhitespace(t2)
             t4 == replace(t3, <<BULLET>>, <<" ", BULLET, " ">>)
         IN strip(t4)

ALLOWED_EXTENSIONS == {<<"p", "d", "f">>}

\* filename.rsplit('.', 1)[1]
RECURSIVE AfterLastDot(_)
AfterLastDot(filename) ==
    IF filename[Len(filename)] = "." THEN <<>>
    ELSE Append(AfterLastDot(SubSeq(filename, 1, Len(filename) - 1)), filename[Len(filename)])

allowed_file(filename) ==
    "." \in Range(filename) /\ lower(AfterLastDot(filename)) \in ALLOWED_EXTENSIONS

NoDoc == [corrupt |-> FALSE, pages |-> <<>>]
NoTemplate == [exists |-> FALSE, pdf |-> NoDoc, txt |-> <<>>]

\* resume_file.save(filepath); text = extract_pdf_text(filepath); f.write(text)
StoreTemplate(doc) == [exists |-> TRUE, pdf |-> doc, txt |-> extract_pdf_text(doc)]

\* An uploaded form part: given is FALSE when the part is missing from the request.
NoPart == [given |-> FALSE, filename |-> <<>>, doc |-> NoDoc]
Part(filename, doc) == [given |-> TRUE, filename |-> filename, doc |-> doc]

ResumeDoc == [corrupt |-> FALSE, pages |-> <<<<"S", "k", "i", "l", "l", "s", ":", "\n", REPL, "S", "Q", "L", ";", NUL, " ", "a", "w", "k">>, <<" ", "g", "i", "t", " ">>>>]
CoverDoc == [corrupt |-> FALSE, pages |-> <<<<"D", "e", "a", "r", " ", " ", "T", "e", "a", "m", ",", "\n", REPL, "I", " ", "b", "u", "i", "l", "d", " ", "t", "o", "o", "l", "s", ".">>>>]

\* The parts an upload request may carry.
ResumeParts == {NoPart, Part(<<"C", "V", ".", "v", "2", ".", "P", "D", "F">>, ResumeDoc), Part(<<"c", "v", ".", "t", "x", "t">>, ResumeDoc)}
CoverParts == {NoPart, Part(<<"c", "l", ".", "p", "d", "f">>, CoverDoc), Part(<<"p", "d", "f">>, CoverDoc)}

EmptyStore == [resume |-> NoTemplate, cover |-> NoTemplate]

UploadResult(st, status, error) == [store |-> st, status |-> status, error |-> error]

\* lines 258-309: the store one upload request leaves, and its response
upload_templates(st, resume_file, cover_file) ==
    LET hasResume == resume_file.given /\ resume_file.filename # <<>>
        hasCover == cover_file.given /\ cover_file.filename # <<>>
        st1 == IF hasResume /\ allowed_file(resume_file.filename)
               THEN [st EXCEPT !.resume = StoreTemplate(resume_file.doc)] ELSE st
        st2 == IF hasCover /\ allowed_file(cover_file.filename)
               THEN [st1 EXCEPT !.cover = StoreTemplate(cover_file.doc)] ELSE st1
    IN IF hasResume /\ ~allowed_file(resume_file.filename)
       THEN UploadResult(st, 400, "Invalid file type for resume")
       ELSE IF hasCover /\ ~allowed_file(cover_file.filename)
       THEN UploadResult(st1, 400, "Invalid file type for cover letter")
       ELSE IF hasResume \/ hasCover
       THEN UploadResult(st2, 200, "")
       ELSE UploadResult(st2, 400, "No valid files uploaded")

(***************************************************************************)
(* Tailoring orchestrator: process_job, generate_cover_with_ollama,        *)
(* create_pdf, download_file                                               *)
(***************************************************************************)
NumRequests == 2
MaxClock == 2
TicksPerSecond == 2
TOP_K == 10

Requests == 1..NumRequests

\* datetime.now().strftime("%Y%m%d_%H%M%S"): the clock cut to whole seconds
strftime(now) == now \div TicksPerSecond

Timestamps == {strftime(t) : t \in 0..MaxClock}

Kinds == {"tailored_resume", "tailored_cover", "job_package"}
Paths == [kind : Kinds, ts : Timestamps]
NoPath == [kind |-> "", ts |-> -1]
PathOf(kind, timestamp) == [kind |-> kind, ts |-> timestamp]

NoFile == [exists |-> FALSE, writer |-> 0, title |-> <<>>, text |-> <<>>, entries |-> <<>>]

\* request.form of one tailoring request
Forms ==
    { [job_title |-> <<" ", "D", "e", "v", "\n">>, company_name |-> <<"C", "o">>, job_description |-> <<"G", "i", "t", " ", "a", "n", "d", " ", "S", "Q", "L", " ", "t", "o", "o", "l", "s", ",", " ", "g", "i", "t">>],
      [job_title |-> <<"O", "p", "s">>, company_name |-> <<"C", "o", " ">>, job_description |-> <<"a", "w", "k">>],
      [job_title |-> <<" ", "\t">>, company_name |-> <<"C", "o">>, job_description |-> <<"a", "w", "k">>],
      [job_title |-> <<"O", "p", "s">>, company_name |-> <<>>, job_description |-> <<"a", "w", "k">>],
      [job_title |-> <<"O", "p", "s">>, company_name |-> <<"C", "o">>, job_description |-> <<"\n">>] }

\* What the text generator does with one call.
GeneratorOutcomes == {"ok", "transport_error", "timeout", "status_500"}
GeneratorFailures == GeneratorOutcomes \ {"ok"}
GeneratedText == <<"D", "e", "a", "r", " ", "C", "o", " ", "T", "e", "a", "m", ",", " ", "I", " ", "k", "n", "o", "w", " ", "G", "i", "t", ".">>
ConnectError ==
    <<"E", "r", "r", "o", "r", ":", " ", "C", "o", "u", "l", "d", " ", "n", "o", "t", " ", "c", "o", "n", "n", "e", "c", "t", " ", "t", "o", " ", "O", "l", "l", "a", "m", "a", ".", " ", "P", "l", "e", "a", "s", "e", " ", "e", "n", "s", "u", "r", "e", " ", "O", "l", "l", "a", "m", "a", " ", "i", "s", " ", "r", "u", "n", "n", "i", "n", "g", " ", "o", "n", " ", "h", "t", "t", "p", ":", "/", "/", "l", "o", "c", "a", "l", "h", "o", "s", "t", ":", "1", "1", "4", "3", "4", "/", "a", "p", "i", "/", "g", "e", "n", "e", "r", "a", "t", "e">>
StatusError == <<"E", "r", "r", "o", "r", " ", "g", "e", "n", "e", "r", "a", "t", "i", "n", "g", " ", "c", "o", "v", "e", "r", " ", "l", "e", "t", "t", "e", "r", ":", " ", "O", "l", "l", "a", "m", "a", " ", "A", "P", "I", " ", "r", "e", "t", "u", "r", "n", "e", "d", " ", "5", "0", "0">>

\* requests.post raises a RequestException on a transport error or a timeout
generate_cover_with_ollama(outcome) ==
    IF outcome = "ok" THEN GeneratedText
    ELSE IF outcome = "status_500" THEN StatusError
    ELSE ConnectError

NoResponse ==
    [status |-> 0, error |-> "", resume_pdf |-> NoPath, cover_pdf |-> NoPath,
     zip_file |-> NoPath, keywords |-> <<>>]
ErrorResponse(status, error) == [NoResponse EXCEPT !.status = status, !.error = error]

NoForm == [job_title |-> <<>>, company_name |-> <<>>, job_description |-> <<>>]

IdleRequest ==
    [pc |-> "IDLE", form |-> NoForm, job_title |-> <<>>, company_name |-> <<>>, job_description |-> <<>>,
     resume_text |-> <<>>, cover_template |-> <<>>, keywords |-> <<>>,
     polished_resume |-> <<>>, generator |-> "none", generated_cover |-> <<>>,
     timestamp |-> -1, resume_success |-> FALSE, cover_success |-> FALSE,
     response |-> NoResponse, steps |-> <<>>]

\* all([job_title, company_name, job_description]) on the stripped fields
AllFieldsGivenUntrimmed(form) ==
    /\ form.job_title # <<>>
    /\ form.company_name # <<>>
    /\ form.job_description # <<>>

AllFieldsGiven(form) ==
    /\ strip(form.job_title) # <<>>
    /\ strip(form.company_name) # <<>>
    /\ strip(form.job_description) # <<>>

\* lines 316-321: read and trim the form, reject a request with an empty field
ReceiveRequest(r) ==
    /\ req[r].pc = "IDLE"
    /\ \E form \in Forms :
          req' = [req EXCEPT ![r] =
                    IF AllFieldsGiven(form)
                    THEN [@ EXCEPT !.pc = "LOAD_TEMPLATES", !.form = form,
                                   !.job_title = strip(form.job_title),
                                   !.company_name = strip(form.company_name),
                                   !.job_description = strip(form.job_description)]
                    ELSE [@ EXCEPT !.pc = "ERROR", !.form = form,
                                   !.job_title = strip(form.job_title),
                                   !.company_name = strip(form.company_name),
                                   !.job_description = strip(form.job_description),
                                   !.response = ErrorResponse(400, "All fields are required")]]
    /\ UNCHANGED <<extract, upload, rank, polish, clock, store, files>>

\* lines 323-340: the templates must exist, then they are read
LoadTemplates(r) ==
    /\ req[r].pc = "LOAD_TEMPLATES"
    /\ req' = [req EXCEPT ![r] =
                 IF ~store.resume.exists
                 THEN [@ EXCEPT !.pc = "ERROR", !.steps = Append(@, "LOAD_TEMPLATES"),
                                !.response = ErrorResponse(400,
                                    "Resume template not found. Please upload a resume first.")]
                 ELSE IF ~store.cover.exists
                 THEN [@ EXCEPT !.pc = "ERROR", !.steps = Append(@, "LOAD_TEMPLATES"),
                                !.response = ErrorResponse(400,
                                    "Cover letter template not found. Please upload a cover letter first.")]
                 ELSE [@ EXCEPT !.pc = "RANK_KEYWORDS", !.steps = Append(@, "LOAD_TEMPLATES"),
                                !.resume_text = store.resume.txt,
                                !.cover_template = store.cover.txt]]
    /\ UNCHANGED <<extract, upload, rank, polish, clock, store, files>>

\* line 343
RankKeywords(r) ==
    /\ req[r].pc = "RANK_KEYWORDS"
    /\ req' = [req EXCEPT ![r] =
                 [@ EXCEPT !.pc = "REWRITE_RESUME", !.steps = Append(@, "RANK_KEYWORDS"),
                           !.keywords = extract_keywords(req[r].job_description, TOP_K)]]
    /\ UNCHANGED <<extract, upload, rank, polish, clock, store, files>>

\* lines 347-348
RewriteResume(r) ==
    /\ req[r].pc = "REWRITE_RESUME"
    /\ req' = [req EXCEPT ![r] =
                 [@ EXCEPT !.pc = "GENERATE_COVER_LETTER",
                           !.steps = Append(@, "REWRITE_RESUME"),
                           !.polished_resume =
                               polish_resume(req[r].resume_text, req[r].keywords,
                                             req[r].job_title, req[r].company_name).text]]
    /\ UNCHANGED <<extract, upload, rank, polish, clock, store, files>>

GenerateCoverLetterOrAbort(r) ==
    /\ req[r].pc = "GENERATE_COVER_LETTER"
    /\ \E outcome \in GeneratorOutcomes :
          req' = [req EXCEPT ![r] =
                    IF outcome = "ok"
                    THEN [@ EXCEPT !.pc = "RENDER_BOTH",
                                   !.steps = Append(@, "GENERATE_COVER_LETTER"),
                                   !.generator = outcome,
                                   !.generated_cover = generate_cover_with_ollama(outcome)]
                    ELSE [@ EXCEPT !.pc = "ERROR",
                                   !.steps = Append(@, "GENERATE_COVER_LETTER"),
                                   !.generator = outcome,
                                   !.response = ErrorResponse(500, "Processing failed")]]
    /\ UNCHANGED <<extract, upload, rank, polish, clock, store, files>>

GenerateCoverLetterRetry(r) ==
    /\ req[r].pc = "GENERATE_COVER_LETTER"
    /\ \E outcome \in GeneratorOutcomes :
          req' = [req EXCEPT ![r] =
                    [@ EXCEPT !.pc = IF outcome # "ok" /\ req[r].generator = "none"
                                     THEN "GENERATE_COVER_LETTER" ELSE "RENDER_BOTH",
                              !.steps = Append(@, "GENERATE_COVER_LETTER"),
                              !.generator = outcome,
                              !.generated_cover = generate_cover_with_ollama(outcome)]]
    /\ UNCHANGED <<extract, upload, rank, polish, clock, store, files>>

\* lines 351-353: one call of the text generator, whatever its outcome
GenerateCoverLetter(r) ==
    /\ req[r].pc = "GENERATE_COVER_LETTER"
    /\ \E outcome \in GeneratorOutcomes :
          req' = [req EXCEPT ![r] =
                    [@ EXCEPT !.pc = "RENDER_BOTH",
                              !.steps = Append(@, "GENERATE_COVER_LETTER"),
                              !.generator = outcome,
                              !.generated_cover = generate_cover_with_ollama(outcome)]]
    /\ UNCHANGED <<extract, upload, rank, polish, clock, store, files>>

\* create_pdf(text, filename, title) by request r: the file pdf.output writes
create_pdf(r, text, title) ==
    [exists |-> TRUE, writer |-> r, title |-> title, text |-> text, entries |-> <<>>]

\* lines 356-363: the timestamp is taken and the resume is rendered; a failed
\* create_pdf returns False and writes nothing
RenderResume(r) ==
    /\ req[r].pc = "RENDER_BOTH"
    /\ LET timestamp == strftime(clock)
           resume_pdf_path == PathOf("tailored_resume", timestamp)
       IN \E resume_success \in BOOLEAN :
             /\ req' = [req EXCEPT ![r] =
                          [@ EXCEPT !.pc = "RENDER_COVER",
                                    !.steps = Append(@, "RENDER_BOTH"),
                                    !.timestamp = timestamp,
                                    !.resume_success = resume_success]]
             /\ files' = IF resume_success
                         THEN [files EXCEPT ![resume_pdf_path] =
                                  create_pdf(r, req[r].polished_resume,
                                             <<"T", "a", "i", "l", "o", "r", "e", "d", " ", "R", "e", "s", "u", "m", "e", " ", "-", " ">> \o req[r].job_title)]
                         ELSE files
    /\ UNCHANGED <<extract, upload, rank, polish, clock, store>>

\* lines 364-368: the cover letter is rendered, then both results are tested
RenderCover(r) ==
    /\ req[r].pc = "RENDER_COVER"
    /\ LET cover_pdf_path == PathOf("tailored_cover", req[r].timestamp)
       IN \E cover_success \in BOOLEAN :
             /\ req' = [req EXCEPT ![r] =
                          IF ~req[r].resume_success \/ ~cover_success
                          THEN [@ EXCEPT !.pc = "ERROR", !.cover_success = cover_success,
                                         !.response = ErrorResponse(500, "Failed to create PDF files")]
                          ELSE [@ EXCEPT !.pc = "BUNDLE", !.cover_success = cover_success]]
             /\ files' = IF cover_success
                         THEN [files EXCEPT ![cover_pdf_path] =
                                  create_pdf(r, req[r].generated_cover,
                                             <<"C", "o", "v", "e", "r", " ", "L", "e", "t", "t", "e", "r", " ", "-", " ">> \o req[r].job_title)]
                         ELSE files
    /\ UNCHANGED <<extract, upload, rank, polish, clock, store>>

\* zipf.write(path, os.path.basename(path)): the entry holds what the file
\* at that path holds when the archive is written
ZipEntry(path) == [name |-> path, writer |-> files[path].writer,
                   title |-> files[path].title, text |-> files[path].text]

\* lines 370-382: the archive is written and the success response returned;
\* an I/O error of the archive goes to the handler's except clause
Bundle(r) ==
    /\ req[r].pc = "BUNDLE"
    /\ LET resume_pdf_path == PathOf("tailored_resume", req[r].timestamp)
           cover_pdf_path == PathOf("tailored_cover", req[r].timestamp)
           zip_path == PathOf("job_package", req[r].timestamp)
       IN \/ /\ files' = [files EXCEPT ![zip_path] =
                            [exists |-> TRUE, writer |-> r, title |-> <<>>, text |-> <<>>,
                             entries |-> <<ZipEntry(resume_pdf_path), ZipEntry(cover_pdf_path)>>]]
             /\ req' = [req EXCEPT ![r] =
                          [@ EXCEPT !.pc = "DONE", !.steps = Append(@, "BUNDLE"),
                                    !.response =
                                       [status |-> 200, error |-> "",
                                        resume_pdf |-> resume_pdf_path,
                                        cover_pdf |-> cover_pdf_path,
                                        zip_file |-> zip_path,
                                        keywords |-> req[r].keywords]]]
          \/ /\ files' = files
             /\ req' = [req EXCEPT ![r] =
                          [@ EXCEPT !.pc = "ERROR", !.steps = Append(@, "BUNDLE"),
                                    !.response = ErrorResponse(500, "Processing failed")]]
    /\ UNCHANGED <<extract, upload, rank, polish, clock, store>>

\* One step of the handler of request r.
process_job(r) ==
    \/ ReceiveRequest(r)
    \/ LoadTemplates(r)
    \/ RankKeywords(r)
    \/ RewriteResume(r)
    \/ GenerateCoverLetter(r)
    \/ RenderResume(r)
    \/ RenderCover(r)
    \/ Bundle(r)

\* lines 389-397: the response to a download request, which changes nothing:
\* any file of the upload folder is served by its name
download_file(path) ==
    IF files[path].exists
    THEN [status |-> 200, file |-> files[path]]
    ELSE [status |-> 404, file |-> NoFile]

\* lines 255-309: one upload request, handled whole
UploadTemplates ==
    /\ \E resume_file \in ResumeParts, cover_file \in CoverParts :
          store' = upload_templates(store, resume_file, cover_file).store
    /\ UNCHANGED <<extract, upload, rank, polish, clock, files, req>>

\* Time passes.
Tick ==
    /\ clock < MaxClock
    /\ clock' = clock + 1
    /\ UNCHANGED <<extract, upload, rank, polish, store, files, req>>

(***************************************************************************)
(* Calls of the two pure functions on their own                            *)
(***************************************************************************)
MaxRankPieces == 5
MaxTopK == 2
EXAMPLE_TOP_K == 5

RankPieces == {<<"c", "a", "t">>, <<"D", "o", "g">>, <<"t", "h", "e">>, <<"o", "x">>, <<" ">>, <<"7">>}

ExampleJobDescription == <<"L", "o", "o", "k", "i", "n", "g", " ", "f", "o", "r", " ", "a", " ", "P", "y", "t", "h", "o", "n", " ", "d", "e", "v", "e", "l", "o", "p", "e", "r", " ", "w", "i", "t", "h", " ", "F", "l", "a", "s", "k", " ", "a", "n", "d", " ", "D", "o", "c", "k", "e", "r", " ", "e", "x", "p", "e", "r", "i", "e", "n", "c", "e">>

\* The texts made of at most n pieces.
RECURSIVE Concats(_, _)
Concats(pieces, n) ==
    IF n = 0 THEN {<<>>}
    ELSE LET shorter == Concats(pieces, n - 1) IN
         shorter \cup {t \o p : t \in shorter, p \in pieces}

RankTexts == Concats(RankPieces, MaxRankPieces) \cup {ExampleJobDescription}
RankTopKs == 0..MaxTopK \cup {EXAMPLE_TOP_K}

NoRank == [called |-> FALSE, text |-> <<>>, top_k |-> 0, result |-> <<>>]

RankCall ==
    /\ ~rank.called
    /\ rank' = [rank EXCEPT !.called = TRUE,
                            !.result = extract_keywords(rank.text, rank.top_k)]
    /\ UNCHANGED <<extract, upload, polish, clock, store, files, req>>

MaxSegments == 3

ResumeSegments ==
    { <<"T", "O", "O", "L", "S", ":", " ", "a", "w", "k", ",", " ", "G", "i", "t">>, <<"S", "k", "i", "l", "l", "s", ":", " ", "S", "Q", "L", ";", " ", "a", "w", "k", ",", " ", "g", "i", "t">>, <<"T", "O", "O", "L", "S">>, <<"L", "a", "n", "g", "u", "a", "g", "e", "s">>, <<":", " ">>,
      <<"a", "w", "k">>, <<",", " ", "G", "i", "t">>, <<"\n">>, <<" ", BULLET, " ">> }

PolishTexts == Concats(ResumeSegments, MaxSegments)
PolishKeywords ==
    { <<>>, <<<<"g", "i", "t">>>>, <<<<"g", "i", "t">>, <<"s", "q", "l">>, <<"a", "w", "k">>, <<"t", "o", "o", "l">>, <<"l", "a", "n", "g">>, <<"s", "k", "i", "l", "l">>>> }
PolishNames == { <<<<"D", "e", "v", " ", "x">>, <<"C", "o">>>>, <<None, <<"C", "o">>>>, <<<<"D", "e", "v", " ", "x">>, None>> }

NoPolish ==
    [called |-> FALSE, resume_text |-> <<>>, keywords |-> <<>>, job_title |-> <<>>,
     company_name |-> <<>>, result |-> [raised |-> FALSE, text |-> <<>>, log |-> <<>>]]

PolishCall ==
    /\ ~polish.called
    /\ polish' = [polish EXCEPT !.called = TRUE,
                                !.result = polish_resume(polish.resume_text, polish.keywords,
                                                         polish.job_title, polish.company_name)]
    /\ UNCHANGED <<extract, upload, rank, clock, store, files, req>>

(***************************************************************************)
(* One call of extract_pdf_text                                            *)
(***************************************************************************)
MaxRawLen == 3

\* The characters a page's extracted text is made of.
RawChars == {REPL, NUL, BULLET, " ", "\n", "\t", "a"}

RECURSIVE RawTexts(_)
RawTexts(n) ==
    IF n = 0 THEN {<<>>}
    ELSE LET shorter == RawTexts(n - 1) IN
         shorter \cup {Append(t, c) : t \in shorter, c \in RawChars}

CorruptDoc == [corrupt |-> TRUE, pages |-> <<>>]

\* The stored files extract_pdf_text may be given: unreadable, without
\* pages, of one page of any raw text, of two pages.
ExtractDocs ==
    {CorruptDoc, NoDoc, ResumeDoc, CoverDoc}
        \cup {[corrupt |-> FALSE, pages |-> <<t>>] : t \in RawTexts(MaxRawLen)}

NoExtract == [called |-> FALSE, doc |-> NoDoc, result |-> <<>>]

ExtractCall ==
    /\ ~extract.called
    /\ extract' = [extract EXCEPT !.called = TRUE, !.result = extract_pdf_text(extract.doc)]
    /\ UNCHANGED <<upload, rank, polish, clock, store, files, req>>

(***************************************************************************)
(* Upload requests and their responses                                     *)
(***************************************************************************)
UploadFilenames == {<<"C", "V", ".", "v", "2", ".", "P", "D", "F">>, <<"c", "v", ".", "t", "x", "t">>, <<"p", "d", "f">>, <<>>}
UploadDocs == {ResumeDoc, CoverDoc}

\* request.files.get(...): no part, or a part with a file name (which the
\* browser leaves empty when no file was chosen) and the file's content.
UploadParts == {NoPart} \cup {Part(filename, doc) : filename \in UploadFilenames, doc \in UploadDocs}

NoUpload == [called |-> FALSE, resume_file |-> NoPart, cover_file |-> NoPart, status |-> 0, error |-> ""]

\* One upload request: what it stores, and the response it returns.
UploadCall ==
    /\ \E resume_file \in UploadParts, cover_file \in UploadParts :
          LET res == upload_templates(store, resume_file, cover_file) IN
          /\ store' = res.store
          /\ upload' = [called |-> TRUE, resume_file |-> resume_file, cover_file |-> cover_file,
                        status |-> res.status, error |-> res.error]
    /\ UNCHANGED <<extract, rank, polish, clock, files, req>>

(***************************************************************************)
(* Specifications                                                          *)
(***************************************************************************)
Idle ==
    /\ upload = NoUpload
    /\ clock = 0
    /\ store = EmptyStore
    /\ files = [p \in Paths |-> NoFile]
    /\ req = [r \in Requests |-> IdleRequest]

Init ==
    /\ extract = NoExtract
    /\ rank = NoRank
    /\ polish = NoPolish
    /\ Idle

\* extract_keywords is called once on any of the texts.
InitRank ==
    /\ \E text \in RankTexts, top_k \in RankTopKs :
          rank = [NoRank EXCEPT !.text = text, !.top_k = top_k]
    /\ extract = NoExtract
    /\ polish = NoPolish
    /\ Idle

\* polish_resume is called once on any of the resumes.
InitPolish ==
    /\ extract = NoExtract
    /\ rank = NoRank
    /\ \E resume_text \in PolishTexts, keywords \in PolishKeywords, names \in PolishNames :
          polish = [NoPolish EXCEPT !.resume_text = resume_text, !.keywords = keywords,
                                    !.job_title = names[1], !.company_name = names[2]]
    /\ Idle

Next ==
    \/ \E r \in Requests : process_job(r)
    \/ UploadTemplates
    \/ Tick

Spec == Init /\ [][Next]_vars

NextRank == RankCall

SpecRank == InitRank /\ [][NextRank]_vars

NextPolish == PolishCall

SpecPolish == InitPolish /\ [][NextPolish]_vars

\* extract_pdf_text is called once on any of the stored files.
InitExtract ==
    /\ \E doc \in ExtractDocs : extract = [NoExtract EXCEPT !.doc = doc]
    /\ rank = NoRank
    /\ polish = NoPolish
    /\ Idle

NextExtract == ExtractCall

SpecExtract == InitExtract /\ [][NextExtract]_vars

NextUpload == UploadCall

SpecUpload == Init /\ [][NextUpload]_vars

(***************************************************************************)
(* Claims about the tailoring request                                      *)
(***************************************************************************)
Pipeline ==
    <<"LOAD_TEMPLATES", "RANK_KEYWORDS", "REWRITE_RESUME", "GENERATE_COVER_LETTER",
      "RENDER_BOTH", "BUNDLE">>

IsPrefix(s, t) == Len(s) <= Len(t) /\ s = SubSeq(t, 1, Len(s))

\* The field is empty once its leading and trailing whitespace is removed.
Blank(field) == \A i \in DOMAIN field : field[i] \in Whitespace

BlankField(form) ==
    Blank(form.job_title) \/ Blank(form.company_name) \/ Blank(form.job_description)

WorkSteps == {"RANK_KEYWORDS", "REWRITE_RESUME", "GENERATE_COVER_LETTER", "RENDER_BOTH", "BUNDLE"}

\* Request r has done nothing beyond looking for the templates and has left
\* no file behind.
NoWorkDone(r) ==
    /\ Range(req[r].steps) \cap WorkSteps = {}
    /\ req[r].keywords = <<>> /\ req[r].polished_resume = <<>>
    /\ req[r].generator = "none" /\ req[r].timestamp = -1
    /\ \A p \in Paths : files[p].writer # r

ResumeMissing == ErrorResponse(400, "Resume template not found. Please upload a resume first.")
CoverMissing ==
    ErrorResponse(400, "Cover letter template not found. Please upload a cover letter first.")
FieldsMissing == ErrorResponse(400, "All fields are required")

C1_RejectedState ==
    \A r \in Requests :
        /\ (req[r].pc # "IDLE" /\ BlankField(req[r].form))
              => req[r].pc = "ERROR" /\ req[r].response = FieldsMissing /\ req[r].steps = <<>>
        /\ req[r].response \in {FieldsMissing, ResumeMissing, CoverMissing}
              => req[r].pc = "ERROR" /\ NoWorkDone(r)

C1_RejectedStep ==
    \A r \in Requests :
        (req[r].pc = "LOAD_TEMPLATES" /\ req'[r] # req[r])
            => /\ ~store.resume.exists
                    => req'[r].pc = "ERROR" /\ req'[r].response = ResumeMissing /\ files' = files
               /\ (store.resume.exists /\ ~store.cover.exists)
                    => req'[r].pc = "ERROR" /\ req'[r].response = CoverMissing /\ files' = files
               /\ (store.resume.exists /\ store.cover.exists) => req'[r].pc = "RANK_KEYWORDS"

\* C1: a tailoring request with a field that is empty after trimming, or made
\* while the resume or the cover-letter template is not stored, ends in ERROR
\* with the error of that case (fields first, then resume, then cover letter),
\* having ranked, rewritten, generated and rendered nothing and written no file.
C1_RejectedBeforeWork == [](C1_RejectedState) /\ [][C1_RejectedStep]_vars

\* Both kinds of rejection at once: a blank title and a missing cover letter.
C1_Witness ==
    \E r1, r2 \in Requests :
        /\ req[r1].pc = "ERROR" /\ req[r1].response = FieldsMissing
        /\ req[r1].form.job_title # <<>> /\ Blank(req[r1].form.job_title)
        /\ req[r2].pc = "ERROR" /\ req[r2].response = CoverMissing

GeneratorFailed(r) == req[r].generator \in GeneratorFailures

C2_FailedState ==
    \A r \in Requests :
        GeneratorFailed(r) =>
            /\ req[r].generated_cover \in {ConnectError, StatusError}
            /\ req[r].generated_cover = ConnectError
                  <=> req[r].generator \in {"transport_error", "timeout"}
            /\ req[r].pc \in {"RENDER_BOTH", "RENDER_COVER", "BUNDLE", "DONE", "ERROR"}
            /\ req[r].pc = "ERROR" =>
                  \/ /\ req[r].response = ErrorResponse(500, "Failed to create PDF files")
                     /\ ~req[r].resume_success \/ ~req[r].cover_success
                  \/ /\ req[r].response = ErrorResponse(500, "Processing failed")
                     /\ req[r].steps = Pipeline
            /\ req[r].pc = "DONE" => req[r].steps = Pipeline /\ req[r].response.status = 200

C2_FailedStep ==
    \A r \in Requests :
        /\ (req[r].pc = "GENERATE_COVER_LETTER" /\ req'[r] # req[r])
              => req'[r].pc = "RENDER_BOTH" /\ req'[r].generator \in GeneratorOutcomes
        /\ (req[r].pc = "RENDER_COVER" /\ req'[r] # req[r] /\ req'[r].cover_success)
              => LET f == files'[PathOf("tailored_cover", req[r].timestamp)] IN
                 f.exists /\ f.writer = r /\ f.text = req[r].generated_cover
        /\ (req[r].pc = "RENDER_COVER" /\ req'[r] # req[r] /\ GeneratorFailed(r)
              /\ req[r].resume_success /\ req'[r].cover_success)
              => req'[r].pc = "BUNDLE"

\* C2: a failed text-generator call (transport error, timeout, status 500)
\* leaves the request on its way: the call returns the error string of that
\* failure, the next step is RENDER_BOTH, the cover letter is rendered from
\* that string and BUNDLE follows; such a request reaches ERROR only through
\* a failed rendering or a failed archive write.
C2_GeneratorFailureContinues == [](C2_FailedState) /\ [][C2_FailedStep]_vars

\* A request whose generator call timed out is DONE, and its archive holds the
\* error string as the cover letter.
C2_Witness ==
    \E r \in Requests :
        /\ req[r].generator = "timeout" /\ req[r].pc = "DONE"
        /\ files[req[r].response.zip_file].entries[2].text = ConnectError

RenderFailed(r) ==
    /\ req[r].pc = "ERROR"
    /\ req[r].response = ErrorResponse(500, "Failed to create PDF files")

\* C3: when rendering one of the two documents fails, the request ends in
\* ERROR, has not bundled, and no download request is answered with a document
\* that request rendered.
C3_NoPartialSuccess ==
    \A r \in Requests :
        /\ (req[r].pc \in {"BUNDLE", "DONE"} => req[r].resume_success /\ req[r].cover_success)
        /\ RenderFailed(r) =>
              /\ "BUNDLE" \notin Range(req[r].steps)
              /\ req[r].response.zip_file = NoPath
              /\ \A p \in Paths :
                    download_file(p).status = 200 => download_file(p).file.writer # r

Named(r) == req[r].timestamp # -1

\* C4: concurrent requests use different artifact names, and the documents
\* and the archive a finished request names are its own.
C4_UniqueArtifacts ==
    /\ \A r1, r2 \in Requests :
          (r1 # r2 /\ Named(r1) /\ Named(r2)) => req[r1].timestamp # req[r2].timestamp
    /\ \A r \in Requests :
          req[r].pc = "DONE" =>
              /\ files[req[r].response.resume_pdf].writer = r
              /\ files[req[r].response.cover_pdf].writer = r
              /\ files[req[r].response.zip_file].writer = r
              /\ \A i \in 1..2 : files[req[r].response.zip_file].entries[i].writer = r

Terminal == {"DONE", "ERROR"}

StepBefore(pc) ==
    CASE pc = "LOAD_TEMPLATES" -> 0
      [] pc = "RANK_KEYWORDS" -> 1
      [] pc = "REWRITE_RESUME" -> 2
      [] pc = "GENERATE_COVER_LETTER" -> 3
      [] pc = "RENDER_BOTH" -> 4
      [] pc = "RENDER_COVER" -> 5
      [] pc = "BUNDLE" -> 5
      [] pc = "DONE" -> 6

C5_PassState ==
    \A r \in Requests :
        /\ IsPrefix(req[r].steps, Pipeline)
        /\ req[r].pc \notin {"IDLE", "ERROR"} => Len(req[r].steps) = StepBefore(req[r].pc)
        /\ req[r].pc = "IDLE" => req[r].steps = <<>>
        /\ (req[r].generator # "none") <=> "GENERATE_COVER_LETTER" \in Range(req[r].steps)
        /\ req[r].pc = "DONE" <=> req[r].response.status = 200
        /\ req[r].pc = "ERROR" <=> req[r].response.status \in {400, 500}
        /\ req[r].pc \in Terminal \cup {"IDLE", "RENDER_COVER"} \cup Range(Pipeline)

C5_PassStep ==
    \A r \in Requests :
        /\ req[r].pc \in Terminal => req'[r] = req[r]
        /\ req'[r] # req[r] =>
              /\ req'[r].pc # "IDLE"
              /\ \/ req'[r].steps = req[r].steps
                 \/ /\ Len(req[r].steps) < Len(Pipeline)
                    /\ req'[r].steps = Append(req[r].steps, Pipeline[Len(req[r].steps) + 1])
              /\ req'[r].pc = "DONE" => req'[r].steps = Pipeline

SuccessIsComplete(r, resp, fs) ==
    LET resume == fs[resp.resume_pdf]
        cover == fs[resp.cover_pdf]
        zip == fs[resp.zip_file]
    IN /\ resp.status = 200
       /\ resume.exists /\ cover.exists /\ zip.exists
       /\ resume.writer = r /\ resume.text = req[r].polished_resume
       /\ cover.writer = r /\ cover.text = req[r].generated_cover
       /\ Len(zip.entries) = 2
       /\ zip.entries[1] = [name |-> resp.resume_pdf, writer |-> r,
                            title |-> resume.title, text |-> req[r].polished_resume]
       /\ zip.entries[2] = [name |-> resp.cover_pdf, writer |-> r,
                            title |-> cover.title, text |-> req[r].generated_cover]
       /\ resp.keywords = extract_keywords(strip(req[r].form.job_description), TOP_K)

\* C6: at the step that returns the success response of a request, both
\* documents are at the returned locations, rendered by that request from its
\* own texts, the archive holds exactly these two documents, and the keywords
\* returned are the ranking of its own job description.
C6_SuccessIsComplete ==
    [][\A r \in Requests :
          (req[r].pc # "DONE" /\ req'[r].pc = "DONE")
              => SuccessIsComplete(r, req'[r].response, files')]_vars

(***************************************************************************)
(* Claims about the keyword ranker                                         *)
(***************************************************************************)
\* The token stream of a text, and the tokens that are no stop words.
TokenStream(text) == findall_words(lower(text), 1)
KeptTokens(text) == Range(TokenStream(text)) \ stop_words

Frequency(w, toks) == Cardinality({i \in DOMAIN toks : toks[i] = w})
FirstSeen(w, toks) == CHOOSE i \in DOMAIN toks : toks[i] = w /\ \A j \in 1..(i - 1) : toks[j] # w

\* a ranks before b: more frequent, or as frequent and seen first
RanksBefore(a, b, toks) ==
    \/ Frequency(a, toks) > Frequency(b, toks)
    \/ Frequency(a, toks) = Frequency(b, toks) /\ FirstSeen(a, toks) < FirstSeen(b, toks)

IsTerm(w) == Len(w) >= 3 /\ (\A i \in DOMAIN w : IsLower(w[i])) /\ w \notin stop_words

\* C7: extract_keywords returns at most top_k terms, each a lowercase
\* alphabetic token of the text of length >= 3 that is no stop word, in
\* descending frequency with ties in order of first occurrence; these are the
\* first top_k of all such tokens, so a text of stop words only gives <<>>.
C7_RankedKeywords ==
    rank.called =>
        LET res == rank.result
            toks == TokenStream(rank.text)
            kept == KeptTokens(rank.text)
        IN /\ Len(res) <= rank.top_k
           /\ Len(res) = Min(rank.top_k, Cardinality(kept))
           /\ \A i \in DOMAIN res :
                 IsTerm(res[i]) /\ res[i] \in kept /\ Contains(lower(rank.text), res[i])
           /\ \A i, j \in DOMAIN res : i < j => RanksBefore(res[i], res[j], toks)
           /\ \A w \in kept \ Range(res) : \A i \in DOMAIN res : RanksBefore(res[i], w, toks)
           /\ kept = {} => res = <<>>

\* The more frequent term comes first although it is seen later.
C7_Witness ==
    /\ rank.called /\ Len(rank.result) = 2
    /\ LET toks == TokenStream(rank.text) IN
          /\ Frequency(rank.result[1], toks) > Frequency(rank.result[2], toks)
          /\ FirstSeen(rank.result[1], toks) > FirstSeen(rank.result[2], toks)

IsExampleCall == rank.called /\ rank.text = ExampleJobDescription /\ rank.top_k = EXAMPLE_TOP_K

\* C8 as stated: the example job description ranked with top_k = 5 gives
\* python, developer, flask, docker, experience.
C8_ExampleAsStated ==
    IsExampleCall =>
        rank.result = <<<<"p", "y", "t", "h", "o", "n">>, <<"d", "e", "v", "e", "l", "o", "p", "e", "r">>, <<"f", "l", "a", "s", "k">>, <<"d", "o", "c", "k", "e", "r">>, <<"e", "x", "p", "e", "r", "i", "e", "n", "c", "e">>>>

\* C8: the example job description ranked with top_k = 5 gives looking,
\* python, developer, flask, docker: "looking" is no stop word and is seen
\* first, every term occurs once, and "experience" is the sixth term.
C8_ExampleRanking ==
    IsExampleCall =>
        rank.result = <<<<"l", "o", "o", "k", "i", "n", "g">>, <<"p", "y", "t", "h", "o", "n">>, <<"d", "e", "v", "e", "l", "o", "p", "e", "r">>, <<"f", "l", "a", "s", "k">>, <<"d", "o", "c", "k", "e", "r">>>>

C8_Witness == IsExampleCall /\ Len(rank.result) = EXAMPLE_TOP_K

(***************************************************************************)
(* Claims about the section rewriter                                       *)
(***************************************************************************)
Occurrences(x, items) == Cardinality({i \in DOMAIN items : items[i] = x})

SamePermutation(a, b) ==
    Len(a) = Len(b) /\ \A x \in Range(a) \cup Range(b) : Occurrences(x, a) = Occurrences(x, b)

WithScore(items, keywords, v) == SelectSeq(items, LAMBDA x : Score(x, keywords) = v)

\* C9: for every matched section with items, the items written back are a
\* permutation of the parsed items, in descending score, the items of one
\* score in their parsed order (so unchanged when all score 0); the section
\* written is the header, ": " and these items joined by ", ", and parsing it
\* again yields these items.
C9_ItemsReordered ==
    polish.called =>
        \A n \in DOMAIN polish.result.log :
            LET e == polish.result.log[n]
                written == Firsts(e.scored)
                kws == polish.keywords
            IN /\ \A i \in DOMAIN e.items :
                     /\ e.items[i] # <<>> /\ Contains(e.group0, e.items[i])
                     /\ \A k \in DOMAIN e.items[i] : ~IsDelimiter(e.items[i][k])
               /\ SamePermutation(written, e.items)
               /\ \A i, j \in DOMAIN written :
                     i < j => Score(written[i], kws) >= Score(written[j], kws)
               /\ \A v \in 0..Len(kws) : WithScore(written, kws, v) = WithScore(e.items, kws, v)
               /\ (\A i \in DOMAIN e.items : Score(e.items[i], kws) = 0) => written = e.items
               /\ e.new_section = e.header \o <<":", " ">> \o join(<<",", " ">>, written)
               /\ ParseItems(join(<<",", " ">>, written)) = written

\* A section of three items of which the last alone scores: it moves to the
\* front and the other two keep their order.
C9_Witness ==
    /\ polish.called
    /\ \E n \in DOMAIN polish.result.log :
          LET e == polish.result.log[n]
              written == Firsts(e.scored)
          IN /\ Len(e.items) = 3
             /\ Score(e.items[3], polish.keywords) > 0
             /\ Score(e.items[1], polish.keywords) = 0
             /\ Score(e.items[2], polish.keywords) = 0
             /\ written = <<e.items[3], e.items[1], e.items[2]>>
             /\ Contains(polish.result.text, e.new_section)

\* The banner the tailored resume starts with.
TailoredBanner(keywords, job_title, company_name) ==
    <<"\n", "\n", "T", "A", "I", "L", "O", "R", "E", "D", " ", "F", "O", "R", " ">> \o upper(job_title) \o <<" ", "A", "T", " ">> \o upper(company_name) \o <<":", " ">>
        \o join(<<",", " ">>, SubSeq(keywords, 1, Min(5, Len(keywords))))
        \o <<"\n", "=", "=", "=", "=", "=", "=", "=", "=", "=", "=", "=", "=", "=", "=", "=", "=", "=", "=", "=", "=", "=", "=", "=", "=", "=", "=", "=", "=", "=", "=", "=", "=", "=", "=", "=", "=", "=", "=", "=", "=", "=", "=", "=", "=", "=", "=", "=", "=", "=", "=", "=", "=", "=", "=", "=", "=", "=", "=", "=", "=", "=", "=", "=", "=", "=", "=", "=", "=", "=", "=", "=", "=", "=", "=", "=", "=", "=", "=", "=", "=", "\n">>

HeaderWords ==
    {<<"s", "k", "i", "l", "l">>, <<"t", "e", "c", "h", "n", "o", "l", "o", "g", "i", "e">>, <<"l", "a", "n", "g", "u", "a", "g", "e">>, <<"p", "r", "o", "g", "r", "a", "m", "m", "i", "n", "g">>, <<"t", "o", "o", "l">>, <<"f", "r", "a", "m", "e", "w", "o", "r", "k">>, <<"l", "i", "b", "r", "a", "r", "i", "e">>}

\* No skill header occurs in the text, in any case.
Headerless(text) == \A h \in HeaderWords : ~Contains(lower(text), h)

BannerThenText(result, banner, resume_text) ==
    /\ Take(result, Len(banner)) = banner
    /\ Len(result) >= Len(banner)
    /\ Headerless(resume_text) => Drop(result, Len(banner) + 1) = resume_text

RECURSIVE FirstOccurrence(_, _, _)
FirstOccurrence(s, old, i) ==
    IF i + Len(old) - 1 > Len(s) THEN 0
    ELSE IF StartsAt(s, old, i) THEN i
    ELSE FirstOccurrence(s, old, i + 1)

\* s with its first occurrence of old replaced by new and nothing else touched.
ReplaceFirst(s, old, new) ==
    LET i == FirstOccurrence(s, old, 1) IN
    IF i = 0 THEN s
    ELSE SubSeq(s, 1, i - 1) \o new \o Drop(s, i + Len(old))

\* C12: every rewrite of a matched section replaces the first exact
\* occurrence of the matched span in the resume text and leaves every other
\* occurrence of the span and all the text around it as they were.
C12_FirstOccurrenceOnly ==
    polish.called =>
        \A i \in DOMAIN polish.result.log :
            LET e == polish.result.log[i] IN
            e.after = ReplaceFirst(e.before, e.group0, e.new_section)
(***************************************************************************)
(* Claims about the normalizer                                             *)
(***************************************************************************)
SingleSpaced(t) ==
    /\ \A i \in DOMAIN t : t[i] \in Whitespace => t[i] = " "
    /\ \A i \in 1..(Len(t) - 1) : ~(t[i] \in Whitespace /\ t[i + 1] \in Whitespace)

\* C11: the canonical text extract_pdf_text returns holds no null byte, no
\* replacement character and no newline, its whitespace is single spaces
\* only, and a file that cannot be read gives the empty text.
C11_CanonicalText ==
    extract.called =>
        /\ NUL \notin Range(extract.result)
        /\ REPL \notin Range(extract.result)
        /\ "\n" \notin Range(extract.result)
        /\ SingleSpaced(extract.result)
        /\ extract.doc.corrupt => extract.result = <<>>

(***************************************************************************)
(* Claims about template uploads                                           *)
(***************************************************************************)
InvalidTypeErrors == {"Invalid file type for resume", "Invalid file type for cover letter"}

\* C13: an upload request answered with an invalid-file-type error leaves
\* both stored templates, raw file and canonical text, as they were.
C13_RejectedUploadStoresNothing ==
    [][(upload'.status = 400 /\ upload'.error \in InvalidTypeErrors) => store' = store]_vars
====
